---- MODULE Spec2Model ----
(***************************************************************************)
(* Memory/cache simulation engine of SIMModHE: the Cache (LRU, write-back, *)
(* burst-aligned transfers), the MemoryStats counters, the MemoryTracker   *)
(* that instruments the ASIC compute-time model, and the SimulationRunner. *)
(* Durations of the ASIC model are kept in clock cycles (seconds * F).     *)
(***************************************************************************)
EXTENDS Integers, Sequences, FiniteSets, TLC

VARIABLES
    tracker,   \* SimulationRunner.tracker: NoTracker or the tracker's configuration
    cache,     \* the Cache object (MemoryTracker.cache)
    stats,     \* the MemoryStats object (MemoryTracker.stats)
    asic,      \* the ASIC accumulators the tracker writes (multiplytime, Rotatetime)
    last,      \* the call that produced this state, with its arguments and outcome
    prev,      \* the call before it (operation and address only)
    calls,     \* number of tracker / runner calls made in this session
    twin       \* a second MemoryTracker driven by the same calls, or NoTwin

vars == <<tracker, cache, stats, asic, last, prev, calls, twin>>

(***************************************************************************)
(* Bounds of the model.                                                    *)
(***************************************************************************)
MaxTimestamp == 3      \* Cache.access calls on an enabled cache object
MaxCalls == 2          \* tracker / runner calls in one session

(***************************************************************************)
(* Program constants.                                                      *)
(***************************************************************************)
burst_size == 64
line_size == 4096

CeilDiv(a, b) == -((-a) \div b)

Max(a, b) == IF a > b THEN a ELSE b

\* Op applied to the value of v, which is evaluated once
Let(v, Op(_)) == CHOOSE y \in {Op(x) : x \in {v}} : TRUE

(***************************************************************************)
(* CacheLine and Cache.                                                    *)
(***************************************************************************)
CacheLine(address, size) ==
    [address |-> address, size |-> size, last_accessed |-> 0, dirty |-> FALSE]

Cache(max_size) ==
    [max_size |-> max_size, current_size |-> 0, timestamp |-> 0,
     lines |-> <<>>, prefetch_candidates |-> {}]

\* position of address in the OrderedDict, 0 when absent
RECURSIVE IndexOf(_, _, _)
IndexOf(lines, address, i) ==
    IF i > Len(lines) THEN 0
    ELSE IF lines[i].address = address THEN i
    ELSE IndexOf(lines, address, i + 1)

lookup(c, address) == IndexOf(c.lines, address, 1) # 0

RemoveAt(s, i) == SubSeq(s, 1, i - 1) \o SubSeq(s, i + 1, Len(s))

RECURSIVE SumSizes(_)
SumSizes(lines) ==
    IF lines = <<>> THEN 0 ELSE Head(lines).size + SumSizes(Tail(lines))

RECURSIVE DirtySizes(_)
DirtySizes(lines) ==
    IF lines = <<>> THEN 0
    ELSE (IF Head(lines).dirty THEN Head(lines).size ELSE 0) + DirtySizes(Tail(lines))

\* mutant: lines are keyed by a one-bit hash of the address, identity included
get_line_address_hashed(address) ==
    [address EXCEPT !.N = 0, !.limbs = (@ * address.id) % 2, !.id = 0]

get_line_address(address) == address

\* mutant: the newest line is popped first (popitem from the wrong end)
RECURSIVE evict_loop_newest_first(_, _, _)
evict_loop_newest_first(c0, needed_size, bytes_written0) ==
    Let(<<c0, bytes_written0>>, LAMBDA v :
        LET c == v[1]
            bytes_written == v[2]
            newest_line == c.lines[Len(c.lines)]
        IN  IF c.current_size + needed_size > c.max_size /\ c.lines # <<>>
            THEN evict_loop_newest_first(
                     [c EXCEPT !.current_size = @ - newest_line.size,
                               !.lines = SubSeq(@, 1, Len(@) - 1)],
                     needed_size,
                     bytes_written + (IF newest_line.dirty THEN newest_line.size ELSE 0))
            ELSE [cache |-> c, bytes_written |-> bytes_written])

RECURSIVE evict_loop(_, _, _)
evict_loop(c0, needed_size, bytes_written0) ==
    Let(<<c0, bytes_written0>>, LAMBDA v :
        LET c == v[1]
            bytes_written == v[2]
            oldest_line == Head(c.lines)
        IN  IF c.current_size + needed_size > c.max_size /\ c.lines # <<>>
            THEN evict_loop([c EXCEPT !.current_size = @ - oldest_line.size,
                                      !.lines = Tail(@)],
                            needed_size,
                            bytes_written + (IF oldest_line.dirty THEN oldest_line.size ELSE 0))
            ELSE [cache |-> c, bytes_written |-> bytes_written])

\* mutant: "if" for "while", at most one line is evicted
evict_once(c0, needed_size) ==
    Let(c0, LAMBDA c :
        IF c.current_size + needed_size <= c.max_size \/ c.lines = <<>>
        THEN [cache |-> c, bytes_written |-> 0]
        ELSE [cache |-> [c EXCEPT !.current_size = @ - Head(c.lines).size,
                                  !.lines = Tail(@)],
              bytes_written |-> IF Head(c.lines).dirty THEN Head(c.lines).size ELSE 0])

\* mutant: a request that can never fit evicts nothing
evict_skips_oversize(c0, needed_size) ==
    Let(c0, LAMBDA c :
        IF c.current_size + needed_size <= c.max_size \/ needed_size > c.max_size
        THEN [cache |-> c, bytes_written |-> 0]
        ELSE evict_loop(c, needed_size, 0))

evict(c0, needed_size) ==
    Let(c0, LAMBDA c :
        IF c.current_size + needed_size <= c.max_size
        THEN [cache |-> c, bytes_written |-> 0]
        ELSE evict_loop(c, needed_size, 0))

\* mutant: the accessed address is recorded as a prefetch candidate
add_prefetch_candidates_records(c, address) ==
    [c EXCEPT !.prefetch_candidates = @ \cup {[address EXCEPT !.kind = "next"]}]

add_prefetch_candidates(c, address) == c

RECURSIVE prefetch_loop(_, _, _, _)
prefetch_loop(c0, todo0, prefetch_bytes0, candidates_to_remove0) ==
    Let(<<c0, todo0, prefetch_bytes0, candidates_to_remove0>>, LAMBDA v :
        LET c == v[1]
            todo == v[2]
            prefetch_bytes == v[3]
            candidates_to_remove == v[4]
            addr == CHOOSE a \in todo : TRUE
        IN  IF todo = {}
            THEN [cache |-> [c EXCEPT !.prefetch_candidates = @ \ candidates_to_remove],
                  prefetch_bytes |-> prefetch_bytes]
            ELSE IF ~lookup(c, addr) /\ c.current_size + line_size <= c.max_size
                 THEN prefetch_loop([c EXCEPT !.lines = Append(@, CacheLine(addr, line_size)),
                                              !.current_size = @ + line_size],
                                    todo \ {addr}, prefetch_bytes + line_size,
                                    candidates_to_remove \cup {addr})
                 ELSE prefetch_loop(c, todo \ {addr}, prefetch_bytes, candidates_to_remove))

prefetch(c0) == Let(c0, LAMBDA c : prefetch_loop(c, c.prefetch_candidates, 0, {}))

\* mutant: the dirty flag is assigned from is_write, a read hit cleans the line
access_hit_assigns_dirty(c, line_addr, timestamp, is_write) ==
    LET i == IndexOf(c.lines, line_addr, 1)
        cache_line == [c.lines[i] EXCEPT !.last_accessed = timestamp,
                                         !.dirty = is_write]
    IN  add_prefetch_candidates(
            [c EXCEPT !.timestamp = timestamp,
                      !.lines = Append(RemoveAt(@, i), cache_line)],
            line_addr)

\* mutant: mark_dirty() is called on every hit, reads included
\* mutant: a hit updates the line where it stands, without move_to_end
access_hit_in_place(c, line_addr, timestamp, is_write) ==
    LET i == IndexOf(c.lines, line_addr, 1)
    IN  add_prefetch_candidates(
            [c EXCEPT !.timestamp = timestamp,
                      !.lines[i].last_accessed = timestamp,
                      !.lines[i].dirty = IF is_write THEN TRUE ELSE @],
            line_addr)

access_hit_always_dirty(c, line_addr, timestamp, is_write) ==
    LET i == IndexOf(c.lines, line_addr, 1)
        cache_line == [c.lines[i] EXCEPT !.last_accessed = timestamp,
                                         !.dirty = TRUE]
    IN  add_prefetch_candidates(
            [c EXCEPT !.timestamp = timestamp,
                      !.lines = Append(RemoveAt(@, i), cache_line)],
            line_addr)

access_hit(c, line_addr, timestamp, is_write) ==
    LET i == IndexOf(c.lines, line_addr, 1)
        cache_line == [c.lines[i] EXCEPT !.last_accessed = timestamp,
                                         !.dirty = IF is_write THEN TRUE ELSE @]
    IN  add_prefetch_candidates(
            [c EXCEPT !.timestamp = timestamp,
                      !.lines = Append(RemoveAt(@, i), cache_line)],
            line_addr)

\* mutant: a request larger than the capacity is not inserted
access_miss_rejects_oversize(c, line_addr, size, timestamp, is_write) ==
    LET transfer_size == CeilDiv(size, burst_size) * burst_size
        new_line == [CacheLine(line_addr, size) EXCEPT !.dirty = is_write,
                                                      !.last_accessed = timestamp]
    IN  Let(evict([c EXCEPT !.timestamp = timestamp], size), LAMBDA ev :
            [cache |-> IF size > c.max_size THEN ev.cache
                       ELSE [ev.cache EXCEPT !.lines = Append(@, new_line),
                                             !.current_size = @ + size],
             hit |-> FALSE,
             dram_bytes |-> transfer_size + ev.bytes_written])

\* mutant: the new line is stored with the burst-rounded transfer size
access_miss_inserts_rounded(c, line_addr, size, timestamp, is_write) ==
    LET transfer_size == CeilDiv(size, burst_size) * burst_size
        new_line == [CacheLine(line_addr, transfer_size) EXCEPT !.dirty = is_write,
                                                               !.last_accessed = timestamp]
    IN  Let(evict([c EXCEPT !.timestamp = timestamp], size), LAMBDA ev :
            [cache |-> [ev.cache EXCEPT !.lines = Append(@, new_line),
                                        !.current_size = @ + transfer_size],
             hit |-> FALSE,
             dram_bytes |-> transfer_size + ev.bytes_written])

access_miss(c, line_addr, size, timestamp, is_write) ==
    LET transfer_size == CeilDiv(size, burst_size) * burst_size
        new_line == [CacheLine(line_addr, size) EXCEPT !.dirty = is_write,
                                                      !.last_accessed = timestamp]
    IN  Let(evict([c EXCEPT !.timestamp = timestamp], size), LAMBDA ev :
            Let(prefetch(add_prefetch_candidates(
                    [ev.cache EXCEPT !.lines = Append(@, new_line),
                                     !.current_size = @ + size],
                    line_addr)),
                LAMBDA pf :
                    [cache |-> pf.cache, hit |-> FALSE,
                     dram_bytes |-> transfer_size + ev.bytes_written + pf.prefetch_bytes]))

\* mutant: the disabled-cache path rounds the size up to whole bursts
access_bypass_rounded(c0, address, size, is_write) ==
    Let(c0, LAMBDA c :
        IF c.max_size = 0
        THEN [cache |-> c, hit |-> FALSE,
              dram_bytes |-> CeilDiv(size, burst_size) * burst_size]
        ELSE LET line_addr == get_line_address(address)
                 timestamp == c.timestamp + 1
             IN  IF lookup(c, line_addr)
                 THEN [cache |-> access_hit(c, line_addr, timestamp, is_write),
                       hit |-> TRUE, dram_bytes |-> 0]
                 ELSE access_miss(c, line_addr, size, timestamp, is_write))

access(c0, address, size, is_write) ==
    Let(c0, LAMBDA c :
        IF c.max_size = 0
        THEN [cache |-> c, hit |-> FALSE, dram_bytes |-> size]
        ELSE LET line_addr == get_line_address(address)
                 timestamp == c.timestamp + 1
             IN  IF lookup(c, line_addr)
                 THEN [cache |-> access_hit(c, line_addr, timestamp, is_write),
                       hit |-> TRUE, dram_bytes |-> 0]
                 ELSE access_miss(c, line_addr, size, timestamp, is_write))

RECURSIVE clear_dirty(_)
clear_dirty(lines) ==
    IF lines = <<>> THEN <<>>
    ELSE <<[Head(lines) EXCEPT !.dirty = FALSE]>> \o clear_dirty(Tail(lines))

\* mutant: clean lines are written back too
flush_counts_all(c0) ==
    Let(c0, LAMBDA c :
        [cache |-> [c EXCEPT !.lines = clear_dirty(@)],
         bytes_written |-> SumSizes(c.lines)])

\* mutant: the written-back lines keep their dirty flag
flush_keeps_dirty(c0) ==
    Let(c0, LAMBDA c :
        [cache |-> c, bytes_written |-> DirtySizes(c.lines)])

flush(c0) ==
    Let(c0, LAMBDA c :
        [cache |-> [c EXCEPT !.lines = clear_dirty(@)],
         bytes_written |-> DirtySizes(c.lines)])

\* mutant: current_size is not reset
clear_keeps_size(c) ==
    Let(flush(c), LAMBDA f :
        [cache |-> [f.cache EXCEPT !.lines = <<>>, !.prefetch_candidates = {}],
         bytes_written |-> f.bytes_written])

\* mutant: clear() also restarts the timestamp counter
clear_resets_timestamp(c) ==
    Let(flush(c), LAMBDA f :
        [cache |-> [f.cache EXCEPT !.lines = <<>>, !.current_size = 0,
                                   !.prefetch_candidates = {}, !.timestamp = 0],
         bytes_written |-> f.bytes_written])

clear(c) ==
    Let(flush(c), LAMBDA f :
        [cache |-> [f.cache EXCEPT !.lines = <<>>, !.current_size = 0,
                                   !.prefetch_candidates = {}],
         bytes_written |-> f.bytes_written])


(***************************************************************************)
(* CacheStyle and MemoryStats.                                             *)
(***************************************************************************)
CacheStyle == {"NONE", "CONST", "BETA", "ALPHA", "HUGE"}

StyleValue(style) ==
    CASE style = "NONE" -> 0
      [] style = "CONST" -> 1
      [] style = "BETA" -> 2
      [] style = "ALPHA" -> 3
      [] style = "HUGE" -> 4

MemoryStats(max_cache_size, cache_style) ==
    [dram_limb_rd |-> 0, dram_limb_wr |-> 0, dram_key_rd |-> 0, dram_plain_rd |-> 0,
     current_cache_size |-> 0, max_cache_usage |-> 0,
     max_cache_size |-> max_cache_size, cache_style |-> cache_style,
     cache_hits |-> 0, cache_misses |-> 0, total_accesses |-> 0,
     computation_cycles |-> 0, memory_cycles |-> 0,
     memory_transactions |-> <<>>]

record_transaction(s, operation, size) ==
    [s EXCEPT !.memory_transactions = Append(@, <<operation, size>>)]

(***************************************************************************)
(* The ASIC compute-time model (ModHE.ASIC).  A duration of x seconds is   *)
(* kept as x * F clock cycles, so "result * self.frequency" is the value   *)
(* itself.  Parameters are a record p = [N, E, l, R, r, NUM, inner].       *)
(***************************************************************************)
F == 1000000000
BD == 2048
PE_R == 8
logq == 50

RECURSIVE Pow(_, _)
Pow(b, e) == IF e <= 0 THEN 1 ELSE b * Pow(b, e - 1)

RECURSIVE Log2(_)
Log2(x) == IF x <= 1 THEN 0 ELSE 1 + Log2(x \div 2)

With(p, l, NUM, inner) == [p EXCEPT !.l = l, !.NUM = NUM, !.inner = inner]

\* g = ceil(N1 / (E * acc_2 * acc_4)) with N1 = N / PE_R
pe_g(p) ==
    LET acc_2 == Pow(2, PE_R \div p.R - 1)
        acc_4 == Pow(4, p.R \div p.r - 1)
    IN  CeilDiv(p.N, PE_R * p.E * acc_2 * acc_4)

pe_raises(p) == p.R = 0 \/ p.r = 0 \/ p.E = 0

multiply_pe_raises(p) == pe_raises(p)
multiply_pe(p) == (pe_g(p) * p.l + 3 + 2 * p.r - 2) * p.NUM

multiply_add_raises(p) == pe_raises(p)
multiply_add(p) == (pe_g(p) + 4 + 1) * p.NUM

add_plain_raises(p) == p.R = 0
add_plain(p) == (CeilDiv(p.N, p.R * 256) + 1) * p.NUM

mod_up_raises(p) == p.R = 0 \/ p.E = 0
mod_up(p) == (CeilDiv(p.N, p.R * p.E) + 1) * p.NUM

\* mod_down calls self.mod_up(N, E, l, R, NUM, inner): r := NUM, NUM := inner
mod_down_raises(p) == p.R = 0 \/ mod_up_raises([p EXCEPT !.r = p.NUM, !.NUM = p.inner, !.inner = 1])
mod_down(p) ==
    mod_up([p EXCEPT !.r = p.NUM, !.NUM = p.inner, !.inner = 1])
    + (CeilDiv(p.N, p.R * 32) * p.l + 4) * p.NUM

ntt_raises(p) == p.R = 0 \/ p.N <= 0
ntt(p) == (Log2(p.N \div p.R) * 5) * p.NUM

tri(r) == (r * (r + 1)) \div 2

multiply_raises(p) == pe_raises(p) \/ ntt_raises(p)
multiply(p) ==
    LET DNUM == p.l
        NUM == p.NUM
        r == p.r
    IN  multiply_pe(With(p, p.l, NUM, 1))
        + ntt(With(p, p.l, NUM, tri(r)))
        + mod_up(With(p, p.l, NUM, DNUM * tri(r)))
        + ntt(With(p, p.l, NUM, DNUM * tri(r)))
        + multiply_add(With(p, p.l, NUM * (r + 1),
                            tri(r) * Pow(4, p.R \div r - 1))) * (DNUM + 1)
        + ntt(With(p, 1, NUM * (p.l + 1) * (r + 1), 1))
        + mod_down(With(p, p.l, NUM * (r + 1), 1))
        + ntt(With(p, p.l, NUM * (r + 1), 1))
        + add_plain(With(p, p.l, NUM * (r + 1), 1))

rescale_raises(p) ==
    ntt_raises(p) \/ mod_down_raises(With(p, p.l - 1, p.NUM * (p.r + 1), 1))
rescale(p) ==
    LET NUM == p.NUM * (p.r + 1)
    IN  ntt(With(p, p.l, NUM, 1))
        + mod_down(With(p, p.l - 1, NUM, 1))
        + ntt(With(p, p.l - 1, NUM, 1))

keyswitch_raises(p) == pe_raises(p) \/ ntt_raises(p)
keyswitch(p) ==
    LET DNUM == p.l
        NUM == p.NUM
        r == p.r
    IN  (pe_g(p) * (p.l - 1)) * NUM
        + ntt(With(p, p.l, NUM, r))
        + mod_up(With(p, p.l, NUM, DNUM * r))
        + ntt(With(p, p.l, NUM, DNUM * r))
        + multiply_add(With(p, p.l, NUM * (r + 1),
                            (r * Pow(4, p.R \div r - 1)) * (DNUM + 1)))
        + ntt(With(p, 1, NUM * (p.l + 1) * (r + 1), 1))
        + mod_down(With(p, p.l, NUM * (r + 1), 1))
        + ntt(With(p, p.l, NUM * (r + 1), 1))
        + add_plain(With(p, p.l, NUM * (r + 1), 1))

\* the automorphism part of rotate: ceil(g*l + 3 + 1) with g = N / R / E
rotate_time(p) == (CeilDiv(p.N * p.l, p.R * p.E) + 4) * p.NUM
rotate_raises(p) == p.R = 0 \/ p.E = 0 \/ keyswitch_raises(p)
rotate(p) == rotate_time(p) + keyswitch(p)

(***************************************************************************)
(* MemoryTracker.  A tracker object is the bundle                          *)
(*   m = [cfg, cache, stats, asic, raised, ret]                            *)
(* where cfg holds cache_style, max_cache_size and dnum, raised tells that *)
(* an exception of the compute-time model is propagating, and ret is the   *)
(* value the last method returned.                                         *)
(***************************************************************************)
dram_base_latency == 45
cache_hit_latency == 2
max_concurrency == 8
latency_threshold == 1024 * 1024
min_size == 1024

frequency == F
\* self.bandwidth / self.frequency = (BD * 10^9 / 8) / F
bytes_per_cycle == (BD * (1000000000 \div frequency)) \div 8

\* id(self), which the tracker writes into the addresses it builds
SelfId == 1
TwinId == 2

MemoryTracker(a, cache_style, max_cache_size) ==
    [cfg |-> [cache_style |-> cache_style, max_cache_size |-> max_cache_size, dnum |-> 2,
              id |-> SelfId],
     cache |-> Cache(max_cache_size),
     stats |-> MemoryStats(max_cache_size, cache_style),
     asic |-> [a EXCEPT !.multiplytime = 0, !.Rotatetime = 0],
     raised |-> FALSE, ret |-> 0]

calculate_size_in_bytes(N, limbs) == Max(CeilDiv(N * limbs * logq, 8), min_size)

\* mutant: a transfer of exactly 1 MiB is still priced as latency-bound
calculate_dram_access_latency_late_threshold(bytes_transferred) ==
    IF bytes_transferred = 0 THEN 0
    ELSE LET requests == CeilDiv(bytes_transferred, burst_size)
             batches == CeilDiv(requests, max_concurrency)
         IN  IF bytes_transferred <= latency_threshold
             THEN dram_base_latency + (batches - 1) * 5
                  + (bytes_transferred * 2) \div (bytes_per_cycle * 10)
             ELSE dram_base_latency + (bytes_transferred * 6) \div (bytes_per_cycle * 10)

\* int(base + (batches - 1) * 5 + transfer_cycles * 0.2), resp. int(base + transfer_cycles * 0.6)
calculate_dram_access_latency(bytes_transferred) ==
    IF bytes_transferred = 0 THEN 0
    ELSE LET requests == CeilDiv(bytes_transferred, burst_size)
             batches == CeilDiv(requests, max_concurrency)
         IN  IF bytes_transferred < latency_threshold
             THEN dram_base_latency + (batches - 1) * 5
                  + (bytes_transferred * 2) \div (bytes_per_cycle * 10)
             ELSE dram_base_latency + (bytes_transferred * 6) \div (bytes_per_cycle * 10)

\* mutant: a hit is not counted in cache_hits
memory_access_hit_uncounted(m0, address, size, is_write) ==
    Let(<<m0, access(m0.cache, address, size, is_write)>>, LAMBDA v :
    LET m == v[1]
        r == v[2]
        latency == IF r.hit THEN cache_hit_latency
                   ELSE calculate_dram_access_latency(r.dram_bytes)
        s1 == [m.stats EXCEPT !.total_accesses = @ + 1]
        s2 == IF r.hit
              THEN s1
              ELSE IF is_write
                   THEN [s1 EXCEPT !.cache_misses = @ + 1, !.dram_limb_wr = @ + r.dram_bytes]
                   ELSE [s1 EXCEPT !.cache_misses = @ + 1, !.dram_limb_rd = @ + r.dram_bytes]
    IN  [m EXCEPT !.cache = r.cache,
                  !.stats = [s2 EXCEPT !.memory_cycles = @ + latency],
                  !.ret = latency])

\* mutant: a miss bills the requested size, not the bytes the cache reported
memory_access_bills_requested_size(m0, address, size, is_write) ==
    Let(<<m0, access(m0.cache, address, size, is_write)>>, LAMBDA v :
    LET m == v[1]
        r == v[2]
        latency == IF r.hit THEN cache_hit_latency
                   ELSE calculate_dram_access_latency(size)
        s1 == [m.stats EXCEPT !.total_accesses = @ + 1]
        s2 == IF r.hit
              THEN [s1 EXCEPT !.cache_hits = @ + 1]
              ELSE IF is_write
                   THEN [s1 EXCEPT !.cache_misses = @ + 1, !.dram_limb_wr = @ + size]
                   ELSE [s1 EXCEPT !.cache_misses = @ + 1, !.dram_limb_rd = @ + size]
    IN  [m EXCEPT !.cache = r.cache,
                  !.stats = [s2 EXCEPT !.memory_cycles = @ + latency],
                  !.ret = latency])

memory_access(m0, address, size, is_write) ==
    Let(<<m0, access(m0.cache, address, size, is_write)>>, LAMBDA v :
    LET m == v[1]
        r == v[2]
        latency == IF r.hit THEN cache_hit_latency
                   ELSE calculate_dram_access_latency(r.dram_bytes)
        s1 == [m.stats EXCEPT !.total_accesses = @ + 1]
        s2 == IF r.hit
              THEN [s1 EXCEPT !.cache_hits = @ + 1]
              ELSE IF is_write
                   THEN [s1 EXCEPT !.cache_misses = @ + 1, !.dram_limb_wr = @ + r.dram_bytes]
                   ELSE [s1 EXCEPT !.cache_misses = @ + 1, !.dram_limb_rd = @ + r.dram_bytes]
    IN  [m EXCEPT !.cache = r.cache,
                  !.stats = [s2 EXCEPT !.memory_cycles = @ + latency],
                  !.ret = latency])

\* "if self.cache.current_size > self.stats.max_cache_usage: ..."
update_max_cache_usage(m0) ==
    Let(m0, LAMBDA m :
        IF m.cache.current_size > m.stats.max_cache_usage
        THEN [m EXCEPT !.stats.max_cache_usage = m.cache.current_size]
        ELSE m)

\* f"{kind}_{N}_{limbs}_{id(self)}"
Address(kind, N, limbs, id) == [kind |-> kind, N |-> N, limbs |-> limbs, id |-> id]

\* mutant: the NONE style is not tested, every read goes through memory_access
read_limb_through_cache(m0, N, limbs) ==
    Let(m0, LAMBDA m :
    LET size == calculate_size_in_bytes(N, limbs)
        address == Address("limb", N, limbs, m.cfg.id)
        m1 == [m EXCEPT !.stats = record_transaction(@, "read_limb", size)]
    IN  [update_max_cache_usage(memory_access(m1, address, size, FALSE))
            EXCEPT !.ret = size])

read_limb(m0, N, limbs) ==
    Let(m0, LAMBDA m :
    LET size == calculate_size_in_bytes(N, limbs)
        address == Address("limb", N, limbs, m.cfg.id)
        m1 == [m EXCEPT !.stats = record_transaction(@, "read_limb", size)]
    IN  IF m.cfg.cache_style = "NONE"
        THEN [m1 EXCEPT !.stats.dram_limb_rd = @ + size,
                        !.stats.memory_cycles = @ + calculate_dram_access_latency(size),
                        !.ret = size]
        ELSE [update_max_cache_usage(memory_access(m1, address, size, FALSE))
                EXCEPT !.ret = size])

write_limb(m0, N, limbs) ==
    Let(m0, LAMBDA m :
    LET size == calculate_size_in_bytes(N, limbs)
        address == Address("limb", N, limbs, m.cfg.id)
        m1 == [m EXCEPT !.stats = record_transaction(@, "write_limb", size)]
    IN  IF m.cfg.cache_style = "NONE"
        THEN [m1 EXCEPT !.stats.dram_limb_wr = @ + size,
                        !.stats.memory_cycles = @ + calculate_dram_access_latency(size),
                        !.ret = size]
        ELSE [update_max_cache_usage(memory_access(m1, address, size, TRUE))
                EXCEPT !.ret = size])

\* mutant: a key found in the cache is not billed to dram_key_rd
read_key_billed_on_miss(m0, N, limbs, compressed) ==
    Let(m0, LAMBDA m :
    LET size0 == calculate_size_in_bytes(N, limbs)
        size == IF compressed THEN size0 ELSE size0 * 2
        address == Address("key", N, limbs, m.cfg.id)
        probed == m.cfg.cache_style # "NONE"
                  /\ StyleValue(m.cfg.cache_style) >= StyleValue("HUGE")
        m1 == [m EXCEPT !.stats = record_transaction(@, "read_key", size)]
        m2 == [m1 EXCEPT !.stats.dram_key_rd =
                             IF probed /\ lookup(m.cache, address) THEN @ ELSE @ + size,
                         !.stats.memory_cycles = @ + calculate_dram_access_latency(size),
                         !.ret = size]
    IN  IF probed
        THEN update_max_cache_usage(
                 [m2 EXCEPT !.cache = access(m2.cache, address, size, FALSE).cache])
        ELSE m2)

read_key(m0, N, limbs, compressed) ==
    Let(m0, LAMBDA m :
    LET size0 == calculate_size_in_bytes(N, limbs)
        size == IF compressed THEN size0 ELSE size0 * 2
        address == Address("key", N, limbs, m.cfg.id)
        m1 == [m EXCEPT !.stats = record_transaction(@, "read_key", size)]
        m2 == [m1 EXCEPT !.stats.dram_key_rd = @ + size,
                         !.stats.memory_cycles = @ + calculate_dram_access_latency(size),
                         !.ret = size]
    IN  IF m.cfg.cache_style # "NONE"
           /\ StyleValue(m.cfg.cache_style) >= StyleValue("HUGE")
        THEN update_max_cache_usage(
                 [m2 EXCEPT !.cache = access(m2.cache, address, size, FALSE).cache])
        ELSE m2)

\* mutant: the plaintext is probed under HUGE only, as the key is
read_plaintext_huge_only(m0, N, limbs) ==
    Let(m0, LAMBDA m :
    LET size == calculate_size_in_bytes(N, limbs)
        address == Address("plaintext", N, limbs, m.cfg.id)
        m1 == [m EXCEPT !.stats = record_transaction(@, "read_plaintext", size)]
        m2 == [m1 EXCEPT !.stats.dram_plain_rd = @ + size,
                         !.stats.memory_cycles = @ + calculate_dram_access_latency(size),
                         !.ret = size]
    IN  IF m.cfg.cache_style # "NONE"
           /\ StyleValue(m.cfg.cache_style) >= StyleValue("HUGE")
        THEN update_max_cache_usage(
                 [m2 EXCEPT !.cache = access(m2.cache, address, size, FALSE).cache])
        ELSE m2)

read_plaintext(m0, N, limbs) ==
    Let(m0, LAMBDA m :
    LET size == calculate_size_in_bytes(N, limbs)
        address == Address("plaintext", N, limbs, m.cfg.id)
        m1 == [m EXCEPT !.stats = record_transaction(@, "read_plaintext", size)]
        m2 == [m1 EXCEPT !.stats.dram_plain_rd = @ + size,
                         !.stats.memory_cycles = @ + calculate_dram_access_latency(size),
                         !.ret = size]
    IN  IF m.cfg.cache_style # "NONE"
        THEN update_max_cache_usage(
                 [m2 EXCEPT !.cache = access(m2.cache, address, size, FALSE).cache])
        ELSE m2)

\* mutant: the cycle totals are not cleared
reset_stats_keeps_cycles(m0) ==
    Let(m0, LAMBDA m :
    LET m1 == [m EXCEPT !.stats = [MemoryStats(m.cfg.max_cache_size, m.cfg.cache_style)
                                      EXCEPT !.memory_cycles = m.stats.memory_cycles,
                                             !.computation_cycles = m.stats.computation_cycles],
                        !.ret = 0]
    IN  IF m.cfg.cache_style # "NONE"
        THEN Let(clear(m1.cache), LAMBDA c :
                 [m1 EXCEPT !.cache = c.cache,
                            !.stats.dram_limb_wr = @ + c.bytes_written])
        ELSE m1)

reset_stats(m0) ==
    Let(m0, LAMBDA m :
    LET m1 == [m EXCEPT !.stats = MemoryStats(m.cfg.max_cache_size, m.cfg.cache_style),
                        !.ret = 0]
    IN  IF m.cfg.cache_style # "NONE"
        THEN Let(clear(m1.cache), LAMBDA c :
                 [m1 EXCEPT !.cache = c.cache,
                            !.stats.dram_limb_wr = @ + c.bytes_written])
        ELSE m1)

(***************************************************************************)
(* The primitive-tracking methods.  An exception raised by the ASIC model  *)
(* propagates: the statements after the raising call are not executed.     *)
(***************************************************************************)
Raise(m) == [m EXCEPT !.raised = TRUE]

Bind(m, Rest(_)) == Let(m, LAMBDA x : IF x.raised THEN x ELSE Rest(x))

\* "computation_cycles = result * self.frequency; self.stats.computation_cycles += ..."
add_computation_cycles(m, result) ==
    [m EXCEPT !.stats.computation_cycles = @ + result]

Return(m, result) == [m EXCEPT !.ret = result]

multiply_pe_with_memory(m, p) ==
    Let(read_limb(m, p.N, p.l), LAMBDA m1 :
        IF multiply_pe_raises(p) THEN Raise(m1)
        ELSE Return(write_limb(add_computation_cycles(m1, multiply_pe(p)), p.N, p.l),
                    multiply_pe(p)))

multiply_add_with_memory(m, p) ==
    Let(read_limb(m, p.N, p.l), LAMBDA m1 :
        IF multiply_add_raises(p) THEN Raise(m1)
        ELSE Return(write_limb(add_computation_cycles(m1, multiply_add(p)), p.N, p.l),
                    multiply_add(p)))

add_plain_with_memory(m, p) ==
    Let(read_plaintext(read_limb(m, p.N, p.l), p.N, 1), LAMBDA m1 :
        IF add_plain_raises(p) THEN Raise(m1)
        ELSE Return(write_limb(add_computation_cycles(m1, add_plain(p)), p.N, p.l),
                    add_plain(p)))

\* mutant: the result of mod_up is written with the input limb count
mod_up_with_memory_writes_l(m, p) ==
    Let(read_limb(m, p.N, p.l), LAMBDA m1 :
        IF mod_up_raises(p) THEN Raise(m1)
        ELSE Return(write_limb(add_computation_cycles(m1, mod_up(p)), p.N, p.l),
                    mod_up(p)))

mod_up_with_memory(m, p) ==
    Let(read_limb(m, p.N, p.l), LAMBDA m1 :
        IF mod_up_raises(p) THEN Raise(m1)
        ELSE Return(write_limb(add_computation_cycles(m1, mod_up(p)), p.N, p.l + 1),
                    mod_up(p)))

\* mutant: the ASIC model is asked about the result limb count l - 1
mod_down_with_memory_result_limbs(m, p) ==
    Let(read_limb(m, p.N, p.l), LAMBDA m1 :
        IF mod_down_raises(p) THEN Raise(m1)
        ELSE Return(write_limb(add_computation_cycles(m1, mod_down([p EXCEPT !.l = p.l - 1])),
                               p.N, p.l - 1),
                    mod_down([p EXCEPT !.l = p.l - 1])))

mod_down_with_memory(m, p) ==
    Let(read_limb(m, p.N, p.l), LAMBDA m1 :
        IF mod_down_raises(p) THEN Raise(m1)
        ELSE Return(write_limb(add_computation_cycles(m1, mod_down(p)), p.N, p.l - 1),
                    mod_down(p)))

ntt_with_memory(m, p) ==
    Let(read_limb(m, p.N, p.l), LAMBDA m1 :
        IF ntt_raises(p) THEN Raise(m1)
        ELSE Return(write_limb(add_computation_cycles(m1, ntt(p)), p.N, p.l),
                    ntt(p)))

\* ASIC.multiply as called by the tracker: "self.multiplytime += time"
asic_multiply(m0, p) ==
    Let(m0, LAMBDA m :
        IF multiply_raises(p) THEN Raise(m)
        ELSE Return([m EXCEPT !.asic.multiplytime = @ + multiply(p)], multiply(p)))

multiply_with_memory(m, p) ==
    LET DNUM == p.l
        NUM == p.NUM
        r == p.r
        s0 == read_limb(m, p.N, p.l * 2)
        s1 == Bind(s0, LAMBDA x : multiply_pe_with_memory(x, With(p, p.l, NUM, 1)))
        s2 == Bind(s1, LAMBDA x : ntt_with_memory(x, With(p, p.l, NUM, tri(r))))
        s3 == Bind(s2, LAMBDA x : mod_up_with_memory(x, With(p, p.l, NUM, DNUM * tri(r))))
        s4 == Bind(s3, LAMBDA x : ntt_with_memory(x, With(p, p.l, NUM, DNUM * tri(r))))
        s5 == Bind(s4, LAMBDA x : multiply_add_with_memory(x,
                       With(p, p.l, NUM * (r + 1), tri(r) * Pow(4, p.R \div r - 1))))
        s6 == Bind(s5, LAMBDA x : ntt_with_memory(x, With(p, 1, NUM * (p.l + 1) * (r + 1), 1)))
        s7 == Bind(s6, LAMBDA x : mod_down_with_memory(x, With(p, p.l, NUM * (r + 1), 1)))
        s8 == Bind(s7, LAMBDA x : ntt_with_memory(x, With(p, p.l, NUM * (r + 1), 1)))
        s9 == Bind(s8, LAMBDA x : add_plain_with_memory(x, With(p, p.l, NUM * (r + 1), 1)))
        s10 == Bind(s9, LAMBDA x : write_limb(x, p.N, p.l))
        s11 == Bind(s10, LAMBDA x : asic_multiply(x, With(p, p.l, NUM, 1)))
    IN  Bind(s11, LAMBDA x :
            Return([add_computation_cycles(x, x.ret)
                       EXCEPT !.asic.multiplytime = @ + x.ret],
                   x.ret))

asic_rescale(m0, p) ==
    Let(m0, LAMBDA m : IF rescale_raises(p) THEN Raise(m) ELSE Return(m, rescale(p)))

rescale_with_memory(m, p) ==
    LET NUM == p.NUM * (p.r + 1)
        s0 == read_limb(m, p.N, p.l)
        s1 == Bind(s0, LAMBDA x : ntt_with_memory(x, With(p, p.l, NUM, 1)))
        s2 == Bind(s1, LAMBDA x : mod_down_with_memory(x, With(p, p.l - 1, NUM, 1)))
        s3 == Bind(s2, LAMBDA x : ntt_with_memory(x, With(p, p.l - 1, NUM, 1)))
        s4 == Bind(s3, LAMBDA x : write_limb(x, p.N, p.l - 1))
        s5 == Bind(s4, LAMBDA x : asic_rescale(x, With(p, p.l, p.NUM, 1)))
    IN  Bind(s5, LAMBDA x : Return(add_computation_cycles(x, x.ret), x.ret))

\* ASIC.rotate: "self.Rotatetime += time" precedes the call of self.keyswitch
asic_rotate(m0, p) ==
    Let(m0, LAMBDA m :
        IF p.R = 0 \/ p.E = 0 THEN Raise(m)
        ELSE LET m1 == [m EXCEPT !.asic.Rotatetime = @ + rotate_time(p)]
             IN  IF keyswitch_raises(p) THEN Raise(m1) ELSE Return(m1, rotate(p)))

rotate_with_memory(m, p) ==
    LET s0 == read_key(read_limb(m, p.N, p.l), p.N, p.l + 1, TRUE)
        s1 == write_limb(read_limb(s0, p.N, p.l), p.N, p.l)
        s2 == write_limb(read_limb(s1, p.N, p.l), p.N, p.l)
        s3 == asic_rotate(s2, With(p, p.l, p.NUM, 1))
    IN  Bind(s3, LAMBDA x :
            Return([write_limb(add_computation_cycles(x, x.ret), p.N, p.l)
                       EXCEPT !.asic.Rotatetime = @ + x.ret],
                   x.ret))

asic_keyswitch(m0, p) ==
    Let(m0, LAMBDA m : IF keyswitch_raises(p) THEN Raise(m) ELSE Return(m, keyswitch(p)))

\* mutant: the key is read uncompressed, as key_compression = False would ask
keyswitch_with_memory_uncompressed_key(m, p) ==
    LET s0 == read_key(read_limb(m, p.N, p.l), p.N, p.l + 1, FALSE)
        s1 == asic_keyswitch(s0, With(p, p.l, p.NUM, 1))
    IN  Bind(s1, LAMBDA x :
            Return(write_limb(add_computation_cycles(x, x.ret), p.N, p.l), x.ret))

keyswitch_with_memory(m, p) ==
    LET s0 == read_key(read_limb(m, p.N, p.l), p.N, p.l + 1, TRUE)
        s1 == asic_keyswitch(s0, With(p, p.l, p.NUM, 1))
    IN  Bind(s1, LAMBDA x :
            Return(write_limb(add_computation_cycles(x, x.ret), p.N, p.l), x.ret))

(***************************************************************************)
(* Inputs of the model.                                                    *)
(***************************************************************************)
N0 == 2^16

NoTracker == [cache_style |-> "NONE", max_cache_size |-> -1, dnum |-> 0, id |-> 0]

NoAddress == Address("none", 0, 0, 0)

NoParams == [N |-> 0, E |-> 0, l |-> 0, R |-> 0, r |-> 0, NUM |-> 0, inner |-> 0]

\* (cache_style, max_cache_size) pairs: those of run_benchmark.py, a style with the
\* default 0 MB, and NONE with a cache object of non-zero capacity
Configs ==
    { <<"NONE", 0>>, <<"NONE", 1048576>>, <<"CONST", 1048576>>, <<"BETA", 4194304>>,
      <<"ALPHA", 0>>, <<"HUGE", 262144000>> }

\* (N, E, l, R, r, NUM, inner); the last one makes the ASIC model divide by E = 0
Params ==
    { [N |-> N0, E |-> 1024, l |-> 1, R |-> 8, r |-> 2, NUM |-> 1, inner |-> 1],
      [N |-> N0, E |-> 512, l |-> 2, R |-> 4, r |-> 4, NUM |-> 2, inner |-> 3],
      [N |-> N0, E |-> 0, l |-> 2, R |-> 8, r |-> 2, NUM |-> 1, inner |-> 1] }

LimbCounts == {1, 2}

CacheCapacities == {0, 1048576}

CacheAddresses ==
    {Address("limb", N0, 1, SelfId), Address("limb", N0, 2, SelfId), Address("key", N0, 2, SelfId)}

CacheSizes == {409600, 819201, 1228800}

ASIC == [multiplytime |-> 0, Rotatetime |-> 0]

NoTwin == [cfg |-> NoTracker]

NoCall ==
    [op |-> "init", operation |-> "", address |-> NoAddress, size |-> 0, flag |-> FALSE,
     p |-> NoParams, hit |-> FALSE, dram_bytes |-> 0, ret |-> 0, error |-> "none",
     args |-> <<>>]

Call(op) == [NoCall EXCEPT !.op = op]

Self == [cfg |-> tracker, cache |-> cache, stats |-> stats, asic |-> asic,
         raised |-> FALSE, ret |-> 0]

\* the state after a tracker method returned (or raised), with the call on record
CommitSelf(m0, call) ==
    \E m \in {m0} :
    /\ cache' = m.cache
    /\ stats' = m.stats
    /\ asic' = m.asic
    /\ last' = [call EXCEPT !.ret = IF m.raised THEN 0 ELSE m.ret,
                            !.error = IF m.raised THEN "collaborator" ELSE "none"]
    /\ prev' = [op |-> last.op, address |-> last.address]
    /\ calls' = calls + 1
    /\ UNCHANGED tracker

Commit(m0, call) == CommitSelf(m0, call) /\ UNCHANGED twin

(***************************************************************************)
(* The Cache object on its own.                                            *)
(***************************************************************************)
InitCache ==
    /\ tracker = NoTracker
    /\ \E max_size \in CacheCapacities : cache = Cache(max_size)
    /\ stats = MemoryStats(0, "NONE")
    /\ asic = ASIC
    /\ last = NoCall
    /\ prev = [op |-> "init", address |-> NoAddress]
    /\ calls = 0
    /\ twin = NoTwin

CacheStep(c, call) ==
    /\ cache' = c
    /\ last' = call
    /\ prev' = [op |-> last.op, address |-> last.address]
    /\ UNCHANGED <<tracker, stats, asic, calls, twin>>

CacheAccess ==
    \E address \in CacheAddresses, size \in CacheSizes, is_write \in BOOLEAN :
        /\ cache.timestamp < MaxTimestamp
        /\ LET r == access(cache, address, size, is_write)
           IN  CacheStep(r.cache, [Call("access") EXCEPT !.address = address, !.size = size,
                                      !.flag = is_write, !.hit = r.hit,
                                      !.dram_bytes = r.dram_bytes])

CacheEvict ==
    \E needed_size \in CacheSizes :
        LET r == evict(cache, needed_size)
        IN  CacheStep(r.cache, [Call("evict") EXCEPT !.size = needed_size,
                                   !.dram_bytes = r.bytes_written])

CachePrefetch ==
    LET r == prefetch(cache)
    IN  CacheStep(r.cache, [Call("prefetch") EXCEPT !.dram_bytes = r.prefetch_bytes])

CacheFlush ==
    LET r == flush(cache)
    IN  CacheStep(r.cache, [Call("flush") EXCEPT !.dram_bytes = r.bytes_written])

CacheClear ==
    LET r == clear(cache)
    IN  CacheStep(r.cache, [Call("clear") EXCEPT !.dram_bytes = r.bytes_written])

NextCache == CacheAccess \/ CacheEvict \/ CachePrefetch \/ CacheFlush \/ CacheClear

SpecCache == InitCache /\ [][NextCache]_vars

(***************************************************************************)
(* A MemoryTracker and the calls of its methods.                           *)
(***************************************************************************)
Init ==
    /\ \E cfg \in Configs :
          LET m == MemoryTracker(ASIC, cfg[1], cfg[2])
          IN  tracker = m.cfg /\ cache = m.cache /\ stats = m.stats /\ asic = m.asic
    /\ last = NoCall
    /\ prev = [op |-> "init", address |-> NoAddress]
    /\ calls = 0
    /\ twin = NoTwin

CanCall == tracker # NoTracker /\ calls < MaxCalls

MemoryAccess ==
    \E limbs \in LimbCounts, is_write \in BOOLEAN :
        /\ CanCall
        /\ LET address == Address("limb", N0, limbs, tracker.id)
               size == calculate_size_in_bytes(N0, limbs)
           IN  Commit(memory_access(Self, address, size, is_write),
                      [Call("memory_access") EXCEPT !.address = address, !.size = size,
                          !.flag = is_write,
                          !.hit = access(cache, address, size, is_write).hit,
                          !.dram_bytes = access(cache, address, size, is_write).dram_bytes])

ReadLimb ==
    \E limbs \in LimbCounts :
        /\ CanCall
        /\ Commit(read_limb(Self, N0, limbs),
                  [Call("read_limb") EXCEPT !.address = Address("limb", N0, limbs, tracker.id),
                      !.size = calculate_size_in_bytes(N0, limbs)])

WriteLimb ==
    \E limbs \in LimbCounts :
        /\ CanCall
        /\ Commit(write_limb(Self, N0, limbs),
                  [Call("write_limb") EXCEPT !.address = Address("limb", N0, limbs, tracker.id),
                      !.size = calculate_size_in_bytes(N0, limbs), !.flag = TRUE])

ReadKey ==
    \E limbs \in LimbCounts, compressed \in BOOLEAN :
        /\ CanCall
        /\ Commit(read_key(Self, N0, limbs, compressed),
                  [Call("read_key") EXCEPT !.address = Address("key", N0, limbs, tracker.id),
                      !.size = calculate_size_in_bytes(N0, limbs), !.flag = compressed])

ReadPlaintext ==
    \E limbs \in LimbCounts :
        /\ CanCall
        /\ Commit(read_plaintext(Self, N0, limbs),
                  [Call("read_plaintext") EXCEPT !.address = Address("plaintext", N0, limbs, tracker.id),
                      !.size = calculate_size_in_bytes(N0, limbs)])

ResetStats ==
    /\ CanCall
    /\ Commit(reset_stats(Self), Call("reset_stats"))

Primitives ==
    {"multiply_pe", "multiply_add", "add_plain", "mod_up", "mod_down", "ntt",
     "multiply", "rescale", "rotate", "keyswitch"}

\* the method <name>_with_memory
with_memory(name, m, p) ==
    CASE name = "multiply_pe" -> multiply_pe_with_memory(m, p)
      [] name = "multiply_add" -> multiply_add_with_memory(m, p)
      [] name = "add_plain" -> add_plain_with_memory(m, p)
      [] name = "mod_up" -> mod_up_with_memory(m, p)
      [] name = "mod_down" -> mod_down_with_memory(m, p)
      [] name = "ntt" -> ntt_with_memory(m, p)
      [] name = "multiply" -> multiply_with_memory(m, p)
      [] name = "rescale" -> rescale_with_memory(m, p)
      [] name = "rotate" -> rotate_with_memory(m, p)
      [] name = "keyswitch" -> keyswitch_with_memory(m, p)

\* the ASIC function of that name, and whether it raises
asic_function(name, p) ==
    CASE name = "multiply_pe" -> multiply_pe(p)
      [] name = "multiply_add" -> multiply_add(p)
      [] name = "add_plain" -> add_plain(p)
      [] name = "mod_up" -> mod_up(p)
      [] name = "mod_down" -> mod_down(p)
      [] name = "ntt" -> ntt(p)
      [] name = "multiply" -> multiply(p)
      [] name = "rescale" -> rescale(p)
      [] name = "rotate" -> rotate(p)
      [] name = "keyswitch" -> keyswitch(p)

Primitive(name) ==
    \E p \in Params :
        /\ CanCall
        /\ Commit(with_memory(name, Self, p),
                  [Call(name) EXCEPT !.operation = name, !.p = p])

MultiplyPe == Primitive("multiply_pe")
MultiplyAdd == Primitive("multiply_add")
AddPlain == Primitive("add_plain")
ModUp == Primitive("mod_up")
ModDown == Primitive("mod_down")
Ntt == Primitive("ntt")
Multiply == Primitive("multiply")
Rescale == Primitive("rescale")
Rotate == Primitive("rotate")
Keyswitch == Primitive("keyswitch")

Next ==
    \/ MemoryAccess \/ ReadLimb \/ WriteLimb \/ ReadKey \/ ReadPlaintext \/ ResetStats
    \/ MultiplyPe \/ MultiplyAdd \/ AddPlain \/ ModUp \/ ModDown \/ Ntt
    \/ Multiply \/ Rescale \/ Rotate \/ Keyswitch

Spec == Init /\ [][Next]_vars

(***************************************************************************)
(* MemoryConfig.calculate_cache_size.  bytes_per_limb = (N * logq) / 8 is  *)
(* a float that need not be whole, so the sizes of this function are kept  *)
(* in eighths of a byte: the value returned stands for value / 8 bytes.    *)
(***************************************************************************)
huge_cache_bytes == 250 * 1024 * 1024

\* mutant: alpha is rounded down
calculate_cache_size_alpha_floor(logN, dnum, limbs, logq_, style) ==
    LET N == 2^logN
        bytes_per_limb == N * logq_
    IN  CASE style = "NONE" -> 0
          [] style = "CONST" -> 4 * bytes_per_limb
          [] style = "BETA" -> dnum * bytes_per_limb
          [] style = "ALPHA" -> ((limbs + 1) \div dnum) * bytes_per_limb
          [] style = "HUGE" -> huge_cache_bytes * 8
          [] OTHER -> 0

calculate_cache_size(logN, dnum, limbs, logq_, style) ==
    LET N == 2^logN
        bytes_per_limb == N * logq_
    IN  CASE style = "NONE" -> 0
          [] style = "CONST" -> 4 * bytes_per_limb
          [] style = "BETA" -> dnum * bytes_per_limb
          [] style = "ALPHA" -> CeilDiv(limbs + 1, dnum) * bytes_per_limb
          [] style = "HUGE" -> huge_cache_bytes * 8
          [] OTHER -> 0

(***************************************************************************)
(* SimulationRunner: configure and run_benchmark.                          *)
(***************************************************************************)
Operations == Primitives \cup {"bogus"}

\* the parameters of run_benchmark.py (E = 1024 or 0, R = 8, r = 2): a run that returns,
\* with fewer than 10 or with more computed cycles according to the primitive, and a
\* run in which the ASIC model raises
RunnerParams == {p \in Params : p.R = 8}

\* "if stats.computation_cycles < 10": the estimate that replaces the computed cycles
estimate(operation, p) ==
    CASE operation = "multiply" -> (p.l * 5000 * p.N) \div 1024
      [] operation = "rotate" -> (p.l * 7500 * p.N) \div 1024
      [] operation = "keyswitch" -> (p.l * 10000 * p.N) \div 1024
      [] OTHER -> (p.l * 2500 * p.N) \div 1024

\* the part of run_benchmark after the tracker is known to exist; error is
\* "unsupported" when the else branch of the dispatch raises ValueError
\* mutant: the estimate replaces the computed cycles in every run
run_benchmark_always_estimates(m, operation, p, do_reset) ==
    LET m0 == IF do_reset THEN reset_stats(m) ELSE m
    IN  IF operation \notin Primitives
        THEN [m |-> Raise(m0), error |-> "unsupported"]
        ELSE Let(with_memory(operation, m0, p), LAMBDA m1 :
                 IF m1.raised THEN [m |-> m1, error |-> "collaborator"]
                 ELSE LET s == [m1.stats EXCEPT !.computation_cycles = estimate(operation, p)]
                      IN  [m |-> [m1 EXCEPT !.stats = s,
                                            !.ret = s.computation_cycles + s.memory_cycles],
                           error |-> "none"])

run_benchmark(m, operation, p, do_reset) ==
    LET m0 == IF do_reset THEN reset_stats(m) ELSE m
    IN  IF operation \notin Primitives
        THEN [m |-> Raise(m0), error |-> "unsupported"]
        ELSE Let(with_memory(operation, m0, p), LAMBDA m1 :
                 IF m1.raised THEN [m |-> m1, error |-> "collaborator"]
                 ELSE LET s == IF m1.stats.computation_cycles < 10
                               THEN [m1.stats EXCEPT !.computation_cycles = estimate(operation, p)]
                               ELSE m1.stats
                      IN  [m |-> [m1 EXCEPT !.stats = s,
                                            !.ret = s.computation_cycles + s.memory_cycles],
                           error |-> "none"])

InitRunner ==
    /\ tracker = NoTracker
    /\ cache = Cache(0)
    /\ stats = MemoryStats(0, "NONE")
    /\ asic = ASIC
    /\ last = NoCall
    /\ prev = [op |-> "init", address |-> NoAddress]
    /\ calls = 0
    /\ twin = NoTwin

\* configure(MemoryConfig(cache_style, max_cache_size_mb, key_compression)): the
\* tracker is built from cache_style and max_cache_bytes, key_compression is not read
Configure ==
    \E cfg \in Configs, key_compression \in BOOLEAN :
        LET m == MemoryTracker(asic, cfg[1], cfg[2])
        IN  /\ tracker' = m.cfg
            /\ cache' = m.cache
            /\ stats' = m.stats
            /\ asic' = m.asic
            /\ last' = [Call("configure") EXCEPT !.flag = key_compression]
            /\ prev' = [op |-> last.op, address |-> last.address]
            /\ calls' = 0
            /\ UNCHANGED twin

\* mutant: a runner without tracker builds a default one instead of raising
RunBenchmarkAutoConfigures ==
    \E operation \in Operations, p \in RunnerParams, do_reset \in BOOLEAN :
        /\ tracker = NoTracker
        /\ LET m == MemoryTracker(asic, "NONE", 0)
           IN  tracker' = m.cfg /\ cache' = m.cache /\ stats' = m.stats /\ asic' = m.asic
        /\ last' = [Call("run_benchmark") EXCEPT !.operation = operation, !.p = p,
                       !.flag = do_reset, !.error = "not_configured"]
        /\ prev' = [op |-> last.op, address |-> last.address]
        /\ UNCHANGED <<calls, twin>>

RunBenchmarkNotConfigured ==
    \E operation \in Operations, p \in RunnerParams, do_reset \in BOOLEAN :
        /\ tracker = NoTracker
        /\ last' = [Call("run_benchmark") EXCEPT !.operation = operation, !.p = p,
                       !.flag = do_reset, !.error = "not_configured"]
        /\ prev' = [op |-> last.op, address |-> last.address]
        /\ UNCHANGED <<tracker, cache, stats, asic, calls, twin>>

RunBenchmark ==
    \E operation \in Operations, p \in RunnerParams, do_reset \in BOOLEAN :
        /\ CanCall
        /\ \E r \in {run_benchmark(Self, operation, p, do_reset)} :
               /\ cache' = r.m.cache
               /\ stats' = r.m.stats
               /\ asic' = r.m.asic
               /\ last' = [Call("run_benchmark") EXCEPT !.operation = operation, !.p = p,
                              !.flag = do_reset, !.error = r.error,
                              !.ret = IF r.error = "none" THEN r.m.ret ELSE 0]
               /\ prev' = [op |-> last.op, address |-> last.address]
               /\ calls' = calls + 1
               /\ UNCHANGED <<tracker, twin>>

NextRunner == Configure \/ RunBenchmarkNotConfigured \/ RunBenchmark

SpecRunner == InitRunner /\ [][NextRunner]_vars

(***************************************************************************)
(* The two pure functions: calculate_cache_size, called on its own, and    *)
(* calculate_dram_access_latency, called on a tracker between other calls. *)
(***************************************************************************)
LogNs == {0, 3, 16}
Dnums == {1, 2, 3}
LimbTotals == {0, 1, 16}
LogQs == {30, logq}
Styles == CacheStyle \cup {"OTHER"}

\* multiples and non-multiples of the burst, of 8 bursts and of 1280 bytes, on both
\* sides of the 1 MiB threshold
TransferSizes ==
    {0, 1, 63, 64, 65, 512, 513, 1279, 1280, 409600, 819200, 1048575,
     1048576, 1048577, 1228800, 2457600}

\* a module-level function, used to choose the capacity before the tracker is used
CalculateCacheSize ==
    \E logN \in LogNs, dnum \in Dnums, limbs \in LimbTotals, logq_ \in LogQs,
       style \in Styles :
        /\ calls = 0
        /\ last' = [Call("calculate_cache_size") EXCEPT
                        !.args = [logN |-> logN, dnum |-> dnum, limbs |-> limbs,
                                  logq |-> logq_, style |-> style],
                        !.ret = calculate_cache_size(logN, dnum, limbs, logq_, style)]
        /\ prev' = [op |-> last.op, address |-> last.address]
        /\ UNCHANGED <<tracker, cache, stats, asic, calls, twin>>

CalculateDramAccessLatency ==
    \E bytes_transferred \in TransferSizes :
        /\ tracker # NoTracker
        /\ last' = [Call("calculate_dram_access_latency") EXCEPT
                        !.size = bytes_transferred,
                        !.ret = calculate_dram_access_latency(bytes_transferred)]
        /\ prev' = [op |-> last.op, address |-> last.address]
        /\ UNCHANGED <<tracker, cache, stats, asic, calls, twin>>

NextFormula == CalculateCacheSize \/ CalculateDramAccessLatency \/ WriteLimb \/ ReadLimb

SpecFormula == Init /\ [][NextFormula]_vars

(***************************************************************************)
(* Two MemoryTracker objects of one configuration, each with its own ASIC  *)
(* object, that receive the same calls.  They differ in id(self), which is *)
(* part of every address they hand to their caches.                        *)
(***************************************************************************)
InitPair ==
    /\ \E cfg \in Configs :
          LET m == MemoryTracker(ASIC, cfg[1], cfg[2])
          IN  /\ tracker = m.cfg /\ cache = m.cache /\ stats = m.stats /\ asic = m.asic
              /\ twin = [m EXCEPT !.cfg.id = TwinId]
    /\ last = NoCall
    /\ prev = [op |-> "init", address |-> NoAddress]
    /\ calls = 0

\* the method of tracker m that the call record names, with the recorded arguments
Method(m, call) ==
    CASE call.op = "memory_access" ->
             memory_access(m, Address(call.address.kind, call.address.N,
                                      call.address.limbs, m.cfg.id),
                           call.size, call.flag)
      [] call.op = "read_limb" -> read_limb(m, call.address.N, call.address.limbs)
      [] call.op = "write_limb" -> write_limb(m, call.address.N, call.address.limbs)
      [] call.op = "read_key" -> read_key(m, call.address.N, call.address.limbs, call.flag)
      [] call.op = "read_plaintext" -> read_plaintext(m, call.address.N, call.address.limbs)
      [] call.op = "reset_stats" -> reset_stats(m)
      [] OTHER -> with_memory(call.op, m, call.p)

PairStep(call) ==
    /\ CanCall
    /\ CommitSelf(Method(Self, call), call)
    /\ \E t \in {Method([twin EXCEPT !.raised = FALSE, !.ret = 0], call)} : twin' = t

\* the flag is is_write of memory_access and compressed of read_key
PairAccess ==
    \E op \in {"memory_access", "read_limb", "write_limb", "read_key", "read_plaintext"},
       limbs \in LimbCounts, flag \in BOOLEAN :
        /\ op \in {"read_limb", "read_plaintext"} => ~flag
        /\ op = "write_limb" => flag
        /\ PairStep([Call(op) EXCEPT
                     !.address = Address(IF op = "read_key" THEN "key"
                                         ELSE IF op = "read_plaintext" THEN "plaintext"
                                         ELSE "limb", N0, limbs, tracker.id),
                     !.size = calculate_size_in_bytes(N0, limbs),
                     !.flag = flag])

PairReset == PairStep(Call("reset_stats"))

\* a parameter set with which the primitives return and the one with which they raise
PairParams == {p \in Params : p.l = 2}

PairPrimitive ==
    \E name \in Primitives, p \in PairParams :
        PairStep([Call(name) EXCEPT !.operation = name, !.p = p])

NextPair == PairAccess \/ PairReset \/ PairPrimitive

SpecPair == InitPair /\ [][NextPair]_vars

(***************************************************************************)
(* The claims.                                                             *)
(***************************************************************************)

\* C1: after any sequence of tracker calls, under every cache style and capacity,
\* cache_hits + cache_misses equals total_accesses.
C1_HitsPlusMisses ==
    stats.cache_hits + stats.cache_misses = stats.total_accesses

\* a session in which both a hit and a miss were counted
C1_Witness ==
    /\ stats.cache_hits > 0
    /\ stats.cache_misses > 0
    /\ stats.total_accesses = stats.cache_hits + stats.cache_misses

\* C2: on an enabled cache whose requests never exceed the capacity, current_size
\* never exceeds max_size.  Stated on the resident lines, whose sizes are the
\* requested sizes: while no resident line is larger than the capacity (which is the
\* case when no request was), current_size <= max_size.
C2_WithinCapacity ==
    (/\ cache.max_size > 0
     /\ \A i \in 1..Len(cache.lines) : cache.lines[i].size <= cache.max_size)
    => cache.current_size <= cache.max_size

\* a miss of a size within capacity that had to evict a dirty line to fit
C2_Witness ==
    /\ cache.max_size > 0
    /\ last.op = "access" /\ ~last.hit
    /\ last.size <= cache.max_size
    /\ last.dram_bytes > CeilDiv(last.size, burst_size) * burst_size
    /\ cache.current_size <= cache.max_size
    /\ cache.lines # <<>>

\* C3: current_size is the sum of the sizes of the lines held.
C3_SizeIsSum ==
    cache.current_size = SumSizes(cache.lines)

\* a hit that asked for another size than the one the line was stored with
C3_Witness ==
    /\ last.op = "access" /\ last.hit
    /\ \E i \in 1..Len(cache.lines) :
          cache.lines[i].address = last.address /\ cache.lines[i].size # last.size
    /\ cache.current_size = SumSizes(cache.lines)

\* C4: a primitive-tracking method that returns gives back the value of the ASIC
\* function of the same name for the same parameters, whatever the cache style,
\* the capacity and the earlier calls.
C4_TimingNeutral ==
    (last.op \in Primitives /\ last.error = "none")
    => last.ret = asic_function(last.op, last.p)

\* multiply_with_memory under NONE, after an earlier call, returned ASIC.multiply
C4_Witness ==
    /\ last.op = "multiply" /\ last.error = "none"
    /\ tracker.cache_style = "NONE"
    /\ prev.op # "init"
    /\ last.ret = multiply(last.p) /\ last.ret > 0

\* C5: with capacity 0 every Cache.access is a miss that moves exactly `size` bytes
\* and the cache stays as constructed: no line, current_size 0, no candidate.
C5_DisabledBypass ==
    (cache.max_size = 0 /\ last.op = "access")
    => /\ ~last.hit
       /\ last.dram_bytes = last.size
       /\ cache.lines = <<>>
       /\ cache.current_size = 0
       /\ cache.prefetch_candidates = {}

\* the same key accessed twice in a row on the disabled cache, with a size that is
\* not a whole number of bursts
C5_Witness ==
    /\ cache.max_size = 0
    /\ last.op = "access" /\ prev.op = "access" /\ prev.address = last.address
    /\ last.size % burst_size # 0
    /\ ~last.hit /\ last.dram_bytes = last.size

\* C6: on an enabled cache, the second of two consecutive accesses of one key is a hit.
C6_SecondAccessHits ==
    (/\ cache.max_size > 0
     /\ last.op = "access" /\ prev.op = "access"
     /\ prev.address = last.address)
    => last.hit

\* the second access hit a line that is larger than the capacity
C6_Witness ==
    /\ cache.max_size > 0
    /\ last.op = "access" /\ prev.op = "access" /\ prev.address = last.address
    /\ last.hit
    /\ cache.current_size > cache.max_size

\* C7: clear() leaves current_size 0, no line and no prefetch candidate, and returns
\* the summed size of the lines that were dirty before the call.
C7_Clear ==
    [][last'.op = "clear"
       => /\ cache'.current_size = 0
          /\ cache'.lines = <<>>
          /\ cache'.prefetch_candidates = {}
          /\ last'.dram_bytes = DirtySizes(cache.lines)]_vars

\* a clear that wrote dirty lines back, right after an access
C7_Witness ==
    /\ last.op = "clear" /\ last.dram_bytes > 0 /\ prev.op = "access"
    /\ cache.lines = <<>> /\ cache.current_size = 0

\* C8: run_benchmark with an unsupported primitive name raises and leaves the
\* tracker's MemoryStats and Cache as they were, for every reset_stats argument.
C8_UnsupportedNoSideEffect ==
    [][(last'.op = "run_benchmark" /\ last'.error = "unsupported")
       => (stats' = stats /\ cache' = cache)]_vars

\* C9: a tracked primitive in which the compute-time model raises records nothing:
\* MemoryStats and the Cache are as before the call.
C9_AllOrNothing ==
    [][(last'.op \in Primitives /\ last'.error = "collaborator")
       => (stats' = stats /\ cache' = cache)]_vars

RECURSIVE LogBytes(_, _)
LogBytes(log, operation) ==
    IF log = <<>> THEN 0
    ELSE (IF Head(log)[1] = operation THEN Head(log)[2] ELSE 0)
         + LogBytes(Tail(log), operation)

RECURSIVE LogCount(_, _)
LogCount(log, operation) ==
    IF log = <<>> THEN 0
    ELSE (IF Head(log)[1] = operation THEN 1 ELSE 0) + LogCount(Tail(log), operation)

\* C11: every read_key adds its full size to dram_key_rd and every read_plaintext its
\* full size to dram_plain_rd, whatever the style and the outcome of the cache probe:
\* since the last reset, dram_key_rd is the sum of the sizes of the key reads issued
\* (the "read_key" entries of the log) and dram_plain_rd that of the plaintext reads.
C11_KeyAndPlainBilledInFull ==
    /\ stats.dram_key_rd = LogBytes(stats.memory_transactions, "read_key")
    /\ stats.dram_plain_rd = LogBytes(stats.memory_transactions, "read_plaintext")

\* keyswitch twice under HUGE with the same limb count: the second key probe found the
\* key line of the first, and both reads were billed
C11_Witness ==
    /\ tracker.cache_style = "HUGE"
    /\ last.op = "keyswitch" /\ prev.op = "keyswitch"
    /\ last.error = "none"
    /\ LogCount(stats.memory_transactions, "read_key") = 2
    /\ Cardinality({i \in 1..Len(cache.lines) : cache.lines[i].address.kind = "key"}) = 1
    /\ stats.dram_key_rd = 2 * cache.lines[CHOOSE i \in 1..Len(cache.lines) :
                                               cache.lines[i].address.kind = "key"].size

\* the step inserted or refreshed the line of `address`: it is the most recently used
\* line afterwards and carries the timestamp of this access
Touched(address) ==
    /\ cache'.timestamp = cache.timestamp + 1
    /\ cache'.lines # <<>>
    /\ cache'.lines[Len(cache'.lines)].address = address
    /\ cache'.lines[Len(cache'.lines)].last_accessed = cache'.timestamp

\* C12 (as claimed): read_key inserts or refreshes a cache line exactly under HUGE and
\* leaves the cache unchanged under the other styles; read_plaintext inserts or
\* refreshes a line under every style but NONE and leaves the cache unchanged under NONE.
C12_ProbeTouches ==
    [][/\ last'.op = "read_key"
          => IF tracker.cache_style = "HUGE" THEN Touched(last'.address)
             ELSE cache' = cache
       /\ last'.op = "read_plaintext"
          => IF tracker.cache_style # "NONE" THEN Touched(last'.address)
             ELSE cache' = cache]_vars

\* C12 (amended): as claimed when the cache has a capacity; a cache of capacity 0 is
\* left unchanged by read_key and read_plaintext under every style.
C12_ProbeTouchesWithCapacity ==
    [][/\ last'.op = "read_key"
          => IF tracker.cache_style = "HUGE" /\ cache.max_size > 0
             THEN Touched(last'.address)
             ELSE cache' = cache
       /\ last'.op = "read_plaintext"
          => IF tracker.cache_style # "NONE" /\ cache.max_size > 0
             THEN Touched(last'.address)
             ELSE cache' = cache]_vars

\* read_key under HUGE refreshed the key line that the read_key before it inserted
C12_Witness ==
    /\ tracker.cache_style = "HUGE"
    /\ last.op = "read_key" /\ prev.op = "read_key" /\ prev.address = last.address
    /\ Len(cache.lines) = 1
    /\ cache.lines[1].address = last.address
    /\ cache.lines[1].last_accessed = 2

\* the methods of the tracker other than memory_access and reset_stats
Tracked == Primitives \cup {"read_limb", "write_limb", "read_key", "read_plaintext"}

\* C13: under NONE, read_limb (write_limb) adds exactly its size to dram_limb_rd
\* (dram_limb_wr) and the DRAM latency of that size to memory_cycles, and leaves the
\* cache, total_accesses, cache_hits and cache_misses unchanged; no tracked method
\* changes the cache or cache_hits under NONE, and a multiply that returned leaves
\* dram_limb_rd > 0 and memory_cycles > 0.
C13_NoneBypass ==
    [][tracker.cache_style = "NONE" =>
        /\ last'.op \in {"read_limb", "write_limb"}
           => /\ last'.size = calculate_size_in_bytes(last'.address.N, last'.address.limbs)
              /\ stats'.dram_limb_rd
                   = stats.dram_limb_rd + (IF last'.op = "read_limb" THEN last'.size ELSE 0)
              /\ stats'.dram_limb_wr
                   = stats.dram_limb_wr + (IF last'.op = "write_limb" THEN last'.size ELSE 0)
              /\ stats'.memory_cycles
                   = stats.memory_cycles + calculate_dram_access_latency(last'.size)
              /\ cache' = cache
              /\ stats'.total_accesses = stats.total_accesses
              /\ stats'.cache_hits = stats.cache_hits
              /\ stats'.cache_misses = stats.cache_misses
        /\ last'.op \in Tracked
           => /\ cache' = cache
              /\ stats'.cache_hits = stats.cache_hits
        /\ (last'.op = "multiply" /\ last'.error = "none")
           => /\ stats'.dram_limb_rd > 0
              /\ stats'.memory_cycles > 0]_vars

\* under NONE with a cache object of non-zero capacity: a read_limb, then a multiply
\* that returned; the cache is still empty and nothing was counted as an access
C13_Witness ==
    /\ tracker.cache_style = "NONE" /\ cache.max_size > 0
    /\ prev.op = "read_limb" /\ last.op = "multiply" /\ last.error = "none"
    /\ cache.lines = <<>> /\ cache.timestamp = 0
    /\ stats.cache_hits = 0 /\ stats.total_accesses = 0
    /\ stats.dram_limb_rd > 0 /\ stats.dram_limb_wr > 0 /\ stats.memory_cycles > 0

\* the lines of a cache with the identity of the owner taken out of the addresses
Anonymous(lines) ==
    [i \in 1..Len(lines) |-> [lines[i] EXCEPT !.address.id = 0]]

\* C14: two trackers of one configuration that received the same calls hold the same
\* lines in the same LRU order (with the same sizes, dirty flags and timestamps), and
\* agree on every counter and cycle total, on the hit and miss counts, on the ASIC
\* accumulators and on what the last call returned or raised.
C14_Deterministic ==
    twin # NoTwin =>
        /\ Anonymous(twin.cache.lines) = Anonymous(cache.lines)
        /\ [twin.cache EXCEPT !.lines = <<>>] = [cache EXCEPT !.lines = <<>>]
        /\ twin.stats = stats
        /\ twin.asic = asic
        /\ twin.raised = (last.error = "collaborator")
        /\ ~twin.raised => twin.ret = last.ret

\* both trackers counted a hit and a miss and hold two lines or more, under addresses
\* that differ in the identity only
C14_Witness ==
    /\ twin # NoTwin
    /\ stats.cache_hits > 0 /\ stats.cache_misses > 0
    /\ twin.stats.cache_hits = stats.cache_hits
    /\ Len(cache.lines) >= 2
    /\ twin.cache.lines # cache.lines
    /\ Anonymous(twin.cache.lines) = Anonymous(cache.lines)

\* C15 (as claimed): the timestamp of the cache goes up by exactly one in every
\* Cache.access call, hit or miss and for every capacity, 0 included, and no other
\* operation changes it.
C15_TimestampPerAccess ==
    [][IF last'.op = "access"
       THEN cache'.timestamp = cache.timestamp + 1
       ELSE cache'.timestamp = cache.timestamp]_vars

\* C15 (amended): the timestamp goes up by exactly one in every Cache.access call, hit
\* or miss, on a cache of non-zero capacity; an access of a cache of capacity 0 and
\* every other operation leave it unchanged.
C15_TimestampPerEnabledAccess ==
    [][IF last'.op = "access" /\ cache.max_size > 0
       THEN cache'.timestamp = cache.timestamp + 1
       ELSE cache'.timestamp = cache.timestamp]_vars

\* an access after a clear() that followed an earlier access: the counter went on
C15_Witness ==
    /\ last.op = "access" /\ prev.op = "clear"
    /\ cache.timestamp = 2
    /\ Len(cache.lines) = 1 /\ cache.lines[1].last_accessed = 2

\* the counters of MemoryStats
Counters ==
    {"dram_limb_rd", "dram_limb_wr", "dram_key_rd", "dram_plain_rd", "max_cache_usage",
     "cache_hits", "cache_misses", "total_accesses", "computation_cycles", "memory_cycles"}

\* the step replaced or reset the statistics: reset_stats, configure, and run_benchmark
\* called with reset_stats = True on a configured runner
Resets(call) ==
    \/ call.op \in {"reset_stats", "configure"}
    \/ call.op = "run_benchmark" /\ call.flag /\ call.error # "not_configured"

C17_NotConfigured ==
    [][(last'.op = "run_benchmark" /\ tracker = NoTracker)
       => /\ last'.error = "not_configured"
          /\ tracker' = NoTracker
          /\ asic' = asic /\ cache' = cache /\ stats' = stats
          /\ calls' = calls]_vars

\* the second of two run_benchmark calls on the unconfigured runner
C17_Witness ==
    /\ last.op = "run_benchmark" /\ prev.op = "run_benchmark"
    /\ last.error = "not_configured"
    /\ tracker = NoTracker /\ asic = ASIC

Trunc(x, y) == x \div y

\* C19: calculate_dram_access_latency(b) is 0 for b = 0; otherwise, with
\* requests = ceil(b / burstSize), batches = ceil(requests / maxConcurrency) and
\* transferCycles = b / 256 (256 bytes per cycle), it is
\* trunc(baseLatency + (batches - 1) * 5 + 0.2 * transferCycles) for b < 1 MiB and
\* trunc(baseLatency + 0.6 * transferCycles) for b >= 1 MiB (0.2 * b / 256 = b / 1280 and
\* 0.6 * b / 256 = 6 * b / 2560, the sums taken over one denominator before truncating);
\* the call leaves the cache, the statistics and the ASIC object as they were and gives
\* the same value in every tracker state.
C19_LatencyFormula ==
    [][last'.op = "calculate_dram_access_latency" =>
        LET b == last'.size
            requests == (b + 63) \div 64
            batches == (requests + 7) \div 8
        IN  /\ last'.ret = IF b = 0 THEN 0
                           ELSE IF b < 1048576
                                THEN Trunc(1280 * (45 + (batches - 1) * 5) + b, 1280)
                                ELSE Trunc(2560 * 45 + 6 * b, 2560)
            /\ cache' = cache /\ stats' = stats /\ asic' = asic /\ tracker' = tracker]_vars

\* the latency of exactly 1 MiB, asked of a tracker that had already written a limb
C19_Witness ==
    /\ last.op = "calculate_dram_access_latency" /\ prev.op = "write_limb"
    /\ last.size = 1048576 /\ last.ret = 2502
    /\ stats.memory_cycles > 0

\* C20: a Cache.access of a key that is present is a hit that returns (true, 0), moves
\* the line to the most recently used position, makes it dirty when is_write and
\* keeps its dirty flag otherwise, and leaves the other lines and their order, the
\* size of every line and current_size as they were, whatever size was asked for.
C20_HitFrame ==
    [][(last'.op = "access" /\ lookup(cache, last'.address)) =>
        LET i == IndexOf(cache.lines, last'.address, 1)
            n == Len(cache.lines)
        IN  /\ last'.hit /\ last'.dram_bytes = 0
            /\ Len(cache'.lines) = n
            /\ SubSeq(cache'.lines, 1, n - 1) = RemoveAt(cache.lines, i)
            /\ cache'.lines[n].address = last'.address
            /\ cache'.lines[n].size = cache.lines[i].size
            /\ cache'.lines[n].dirty = (cache.lines[i].dirty \/ last'.flag)
            /\ cache'.current_size = cache.current_size
            /\ cache'.max_size = cache.max_size
            /\ cache'.prefetch_candidates = cache.prefetch_candidates]_vars

\* a read hit, asking for another size, of a dirty line that was the least recently
\* used of two: it is now the most recently used one and still dirty
C20_Witness ==
    /\ last.op = "access" /\ last.hit /\ ~last.flag
    /\ Len(cache.lines) = 2
    /\ cache.lines[2].address = last.address
    /\ cache.lines[2].dirty
    /\ cache.lines[2].size # last.size
    /\ cache.lines[1].last_accessed = 2 /\ cache.lines[2].last_accessed = 3

\* the lines of `before` whose key is no longer resident in `after`
Evicted(before, after) ==
    SelectSeq(before, LAMBDA line : IndexOf(after, line.address, 1) = 0)

\* C21: on an enabled cache a miss returns (false, ceil(size / burst_size) *
\* burst_size + the summed sizes of the dirty lines this access evicted) and puts
\* one new line of exactly `size` bytes at the most-recently-used end, dirty iff
\* is_write; the other lines that stay are untouched and clean evicted lines add
\* nothing to the returned bytes.
C21_MissEffect ==
    [][(/\ last'.op = "access"
        /\ cache.max_size > 0
        /\ ~lookup(cache, get_line_address(last'.address)))
       => LET n == Len(cache'.lines)
              gone == Evicted(cache.lines, cache'.lines)
          IN  /\ ~last'.hit
              /\ last'.dram_bytes
                    = ((last'.size + burst_size - 1) \div burst_size) * burst_size
                      + DirtySizes(gone)
              /\ n >= 1
              /\ cache'.lines[n] = [address |-> get_line_address(last'.address),
                                    size |-> last'.size,
                                    dirty |-> last'.flag,
                                    last_accessed |-> cache'.timestamp]
              /\ gone \o SubSeq(cache'.lines, 1, n - 1) = cache.lines
              /\ cache'.current_size
                    = cache.current_size - SumSizes(gone) + last'.size]_vars

\* the third access, a miss of a size that is not a whole number of bursts, emptied
\* the cache to fit and wrote 409600 dirty bytes back
C21_Witness ==
    /\ cache.max_size > 0
    /\ last.op = "access" /\ ~last.hit /\ cache.timestamp = 3
    /\ last.size % burst_size # 0
    /\ Len(cache.lines) = 1 /\ cache.lines[1].size = last.size
    /\ last.dram_bytes = CeilDiv(last.size, burst_size) * burst_size + 409600

\* the request fits once the k least recently used lines of c are gone
FitsWithout(c, k, needed_size) ==
    c.current_size - SumSizes(SubSeq(c.lines, 1, k)) + needed_size <= c.max_size

\* C22: evict(needed_size) removes nothing and returns 0 when current_size +
\* needed_size <= max_size; otherwise it removes the shortest prefix of the LRU
\* order after which the request fits, or every line when no prefix is enough, and
\* returns the summed sizes of the dirty lines among the removed ones.
C22_ShortestLruPrefix ==
    [][last'.op = "evict"
       => \E k \in 0..Len(cache.lines) :
             /\ cache'.lines = SubSeq(cache.lines, k + 1, Len(cache.lines))
             /\ FitsWithout(cache, k, last'.size) \/ k = Len(cache.lines)
             /\ \A j \in 0..(k - 1) : ~FitsWithout(cache, j, last'.size)
             /\ cache'.current_size
                   = cache.current_size - SumSizes(SubSeq(cache.lines, 1, k))
             /\ last'.dram_bytes = DirtySizes(SubSeq(cache.lines, 1, k))
             /\ cache.current_size + last'.size <= cache.max_size
                   => (k = 0 /\ cache' = cache /\ last'.dram_bytes = 0)]_vars

\* evict stopped at the first fit: the older, dirty line went, the newer one stayed
C22_Witness ==
    /\ last.op = "evict" /\ prev.op = "access"
    /\ last.dram_bytes = 409600
    /\ Len(cache.lines) = 1
    /\ cache.lines[1].last_accessed = 2
    /\ cache.current_size + last.size <= cache.max_size

\* C23: on a cache of non-zero capacity a miss that asks for more than the capacity
\* empties the cache and inserts anyway: afterwards the cache holds exactly that one
\* line and current_size = size > max_size.  The capacity is exceeded only in states
\* where the cache holds a single line that is larger than the capacity.
C23_OversizedAlone ==
    [][/\ (/\ last'.op = "access"
           /\ cache.max_size > 0
           /\ ~lookup(cache, get_line_address(last'.address))
           /\ last'.size > cache.max_size)
          => /\ Len(cache'.lines) = 1
             /\ cache'.lines[1].address = get_line_address(last'.address)
             /\ cache'.lines[1].size = last'.size
             /\ cache'.current_size = last'.size
             /\ cache'.current_size > cache'.max_size
       /\ cache'.current_size > cache'.max_size
          => /\ Len(cache'.lines) = 1
             /\ cache'.lines[1].size > cache'.max_size]_vars

\* an oversized miss came after an access of another key, threw that line out with
\* its dirty bytes and is now alone in the cache
C23_Witness ==
    /\ cache.max_size > 0
    /\ last.op = "access" /\ ~last.hit /\ last.size > cache.max_size
    /\ prev.op = "access" /\ prev.address # last.address
    /\ last.dram_bytes > CeilDiv(last.size, burst_size) * burst_size
    /\ Len(cache.lines) = 1 /\ cache.lines[1].address = last.address
    /\ cache.current_size = last.size

\* no resident line is dirty
AllClean(c) == \A i \in 1..Len(c.lines) : ~c.lines[i].dirty

\* C24: flush() returns the sum of the sizes of the dirty lines and leaves every line
\* clean; the lines held, their sizes, timestamps and LRU order, current_size and the
\* rest of the cache are as before.  A second flush with no write in between returns
\* 0: a cache without dirty lines stays so under every operation but a write access,
\* and a flush of it returns 0.
C24_Flush ==
    [][/\ last'.op = "flush"
          => /\ last'.dram_bytes = DirtySizes(cache.lines)
             /\ Len(cache'.lines) = Len(cache.lines)
             /\ \A i \in 1..Len(cache.lines) :
                   cache'.lines[i] = [cache.lines[i] EXCEPT !.dirty = FALSE]
             /\ AllClean(cache')
             /\ cache' = [cache EXCEPT !.lines = cache'.lines]
             /\ AllClean(cache) => last'.dram_bytes = 0
       /\ (AllClean(cache) /\ ~(last'.op = "access" /\ last'.flag))
          => AllClean(cache')]_vars

\* a flush of two resident lines wrote back the dirty one only and left both clean
C24_Witness ==
    /\ last.op = "flush" /\ prev.op = "access"
    /\ Len(cache.lines) = 2
    /\ last.dram_bytes > 0 /\ last.dram_bytes < cache.current_size
    /\ \A i \in 1..Len(cache.lines) : ~cache.lines[i].dirty

\* C25: a resident line is dirty iff its key was written since the line was inserted
\* and since the last flush.  Step by step: a line is inserted dirty iff the access
\* that inserted it is a write; a flush leaves it clean; a write access of its key
\* makes it dirty; every other step (a read of its key, an access of another key,
\* an eviction of another line, a prefetch) leaves its dirty flag as it was.
C25_DirtyIffWritten ==
    [][\A j \in 1..Len(cache'.lines) :
          LET line == cache'.lines[j]
              i == IndexOf(cache.lines, line.address, 1)
              accessed == /\ last'.op = "access"
                          /\ get_line_address(last'.address) = line.address
          IN  line.dirty =
                 IF i = 0 THEN accessed /\ last'.flag
                 ELSE IF last'.op = "flush" THEN FALSE
                 ELSE IF accessed THEN cache.lines[i].dirty \/ last'.flag
                 ELSE cache.lines[i].dirty]_vars

\* a write hit right after a flush made the line dirty, next to a line that the flush
\* left clean
C25_Witness ==
    /\ last.op = "access" /\ last.hit /\ last.flag /\ prev.op = "flush"
    /\ Len(cache.lines) = 2
    /\ ~cache.lines[1].dirty
    /\ cache.lines[2].dirty /\ cache.lines[2].address = last.address

\* C26: the LRU order lists the resident lines by strictly increasing last-access
\* timestamp, so no two lines share a timestamp, and the last line is the one that
\* the latest access touched: it carries the current value of the counter.
C26_LruByTimestamp ==
    /\ \A i, j \in 1..Len(cache.lines) :
          i < j => cache.lines[i].last_accessed < cache.lines[j].last_accessed
    /\ cache.lines # <<>>
          => cache.lines[Len(cache.lines)].last_accessed = cache.timestamp
    /\ (last.op = "access" /\ cache.max_size > 0)
          => /\ cache.lines # <<>>
             /\ cache.lines[Len(cache.lines)].address = get_line_address(last.address)

\* a hit moved the line of the first access behind the line of the second one
C26_Witness ==
    /\ last.op = "access" /\ last.hit
    /\ Len(cache.lines) = 2
    /\ cache.lines[1].last_accessed = 2
    /\ cache.lines[2].last_accessed = 3
    /\ cache.lines[2].address = last.address

\* C27: the prefetch-candidate set is empty in every reachable cache state, so
\* prefetch() returns 0 and leaves the cache as it is (no line added, current_size
\* unchanged), and the bytes of a miss are the burst-rounded size plus the dirty
\* evicted bytes, with no prefetch share.
C27_NoPrefetch ==
    [][/\ cache.prefetch_candidates = {}
       /\ cache'.prefetch_candidates = {}
       /\ last'.op = "prefetch" => (last'.dram_bytes = 0 /\ cache' = cache)
       /\ (last'.op = "access" /\ cache.max_size > 0 /\ ~last'.hit)
          => /\ last'.dram_bytes = CeilDiv(last'.size, burst_size) * burst_size
                                   + DirtySizes(Evicted(cache.lines, cache'.lines))
             /\ \A i \in 1..Len(cache'.lines) :
                   \/ IndexOf(cache.lines, cache'.lines[i].address, 1) # 0
                   \/ cache'.lines[i].address = get_line_address(last'.address)]_vars

\* prefetch() called right after an access, on a cache with room for a prefetched
\* line: nothing was fetched
C27_Witness ==
    /\ last.op = "prefetch" /\ prev.op = "access"
    /\ cache.lines # <<>>
    /\ cache.current_size + line_size <= cache.max_size
    /\ last.dram_bytes = 0
    /\ cache.prefetch_candidates = {}

\* C28: each memory_access adds 1 to total_accesses.  On a hit it adds 1 to
\* cache_hits, charges cache_hit_latency and leaves the DRAM byte counters as they
\* were; on a miss it adds 1 to cache_misses, charges the DRAM latency of the bytes
\* the cache reported and adds those bytes to dram_limb_wr when is_write, to
\* dram_limb_rd otherwise.  memory_cycles grows by exactly the returned latency.
C28_MemoryAccess ==
    [][last'.op = "memory_access"
       => /\ stats'.total_accesses = stats.total_accesses + 1
          /\ stats'.memory_cycles = stats.memory_cycles + last'.ret
          /\ stats'.dram_key_rd = stats.dram_key_rd
          /\ stats'.dram_plain_rd = stats.dram_plain_rd
          /\ last'.hit
             => /\ stats'.cache_hits = stats.cache_hits + 1
                /\ stats'.cache_misses = stats.cache_misses
                /\ last'.ret = cache_hit_latency
                /\ stats'.dram_limb_rd = stats.dram_limb_rd
                /\ stats'.dram_limb_wr = stats.dram_limb_wr
          /\ ~last'.hit
             => /\ stats'.cache_misses = stats.cache_misses + 1
                /\ stats'.cache_hits = stats.cache_hits
                /\ last'.ret = calculate_dram_access_latency(last'.dram_bytes)
                /\ stats'.dram_limb_wr
                      = stats.dram_limb_wr + (IF last'.flag THEN last'.dram_bytes ELSE 0)
                /\ stats'.dram_limb_rd
                      = stats.dram_limb_rd + (IF last'.flag THEN 0 ELSE last'.dram_bytes)]_vars

\* a read miss that had to write a dirty line back: the bytes moved, more than the
\* bytes asked for, went to dram_limb_rd
C28_Witness ==
    /\ last.op = "memory_access" /\ ~last.hit /\ ~last.flag
    /\ last.dram_bytes > last.size
    /\ stats.dram_limb_rd = last.dram_bytes
    /\ stats.cache_misses = 2 /\ stats.total_accesses = 2
    /\ last.ret = calculate_dram_access_latency(last.dram_bytes)

\* the size of the last entry of the log that carries the tag, -1 when there is none
RECURSIVE LastSize(_, _)
LastSize(log, operation) ==
    IF log = <<>> THEN -1
    ELSE IF log[Len(log)][1] = operation THEN log[Len(log)][2]
    ELSE LastSize(SubSeq(log, 1, Len(log) - 1), operation)

\* the limb count of the result of a primitive on l limbs
ResultLimbs(name, l) ==
    CASE name \in {"multiply_pe", "multiply_add", "add_plain", "ntt",
                   "multiply", "rotate", "keyswitch"} -> l
      [] name = "mod_up" -> l + 1
      [] name \in {"mod_down", "rescale"} -> l - 1

\* C29: the last write_limb that a primitive-tracking method issues is sized by the
\* limb count of its result: l for multiply_pe, multiply_add, add_plain, ntt,
\* multiply, rotate and keyswitch, l + 1 for mod_up, l - 1 for mod_down and rescale.
\* It is the last "write_limb" entry among the log entries that the call appends;
\* a call that returns appends at least one.
C29_ResultSizedWrite ==
    [][(last'.op \in Primitives /\ last'.error = "none")
       => LET log == stats.memory_transactions
              log1 == stats'.memory_transactions
              appended == SubSeq(log1, Len(log) + 1, Len(log1))
          IN  /\ SubSeq(log1, 1, Len(log)) = log
              /\ LastSize(appended, "write_limb")
                    = calculate_size_in_bytes(last'.p.N, ResultLimbs(last'.op, last'.p.l))]_vars

\* mod_up on two limbs wrote three limbs back, after an earlier call had logged a
\* write of another size
C29_Witness ==
    /\ last.op = "mod_up" /\ last.error = "none" /\ last.p.l = 2
    /\ prev.op = "write_limb"
    /\ LastSize(stats.memory_transactions, "write_limb") = 1228800
    /\ LogCount(stats.memory_transactions, "write_limb") = 2

\* the calls of primitives that ASIC.multiply, ASIC.rescale, ASIC.keyswitch and
\* ASIC.rotate make, in the order of the source, each with its (l, NUM, inner);
\* the first term of ASIC.keyswitch is computed in line and calls nothing, and
\* ASIC.rotate calls ASIC.keyswitch
multiply_calls(p) ==
    LET DNUM == p.l
        NUM == p.NUM
        r == p.r
    IN  << <<"multiply_pe", With(p, p.l, NUM, 1)>>,
           <<"ntt", With(p, p.l, NUM, tri(r))>>,
           <<"mod_up", With(p, p.l, NUM, DNUM * tri(r))>>,
           <<"ntt", With(p, p.l, NUM, DNUM * tri(r))>>,
           <<"multiply_add", With(p, p.l, NUM * (r + 1), tri(r) * Pow(4, p.R \div r - 1))>>,
           <<"ntt", With(p, 1, NUM * (p.l + 1) * (r + 1), 1)>>,
           <<"mod_down", With(p, p.l, NUM * (r + 1), 1)>>,
           <<"ntt", With(p, p.l, NUM * (r + 1), 1)>>,
           <<"add_plain", With(p, p.l, NUM * (r + 1), 1)>> >>

rescale_calls(p) ==
    LET NUM == p.NUM * (p.r + 1)
    IN  << <<"ntt", With(p, p.l, NUM, 1)>>,
           <<"mod_down", With(p, p.l - 1, NUM, 1)>>,
           <<"ntt", With(p, p.l - 1, NUM, 1)>> >>

keyswitch_calls(p) ==
    LET DNUM == p.l
        NUM == p.NUM
        r == p.r
    IN  << <<"ntt", With(p, p.l, NUM, r)>>,
           <<"mod_up", With(p, p.l, NUM, DNUM * r)>>,
           <<"ntt", With(p, p.l, NUM, DNUM * r)>>,
           <<"multiply_add", With(p, p.l, NUM * (r + 1),
                                  (r * Pow(4, p.R \div r - 1)) * (DNUM + 1))>>,
           <<"ntt", With(p, 1, NUM * (p.l + 1) * (r + 1), 1)>>,
           <<"mod_down", With(p, p.l, NUM * (r + 1), 1)>>,
           <<"ntt", With(p, p.l, NUM * (r + 1), 1)>>,
           <<"add_plain", With(p, p.l, NUM * (r + 1), 1)>> >>

rotate_calls(p) == keyswitch_calls(p)

reference_calls(name, p) ==
    CASE name = "multiply" -> multiply_calls(p)
      [] name = "rescale" -> rescale_calls(p)
      [] name = "keyswitch" -> keyswitch_calls(p)
      [] name = "rotate" -> rotate_calls(p)

Composites == {"multiply", "rescale", "rotate", "keyswitch"}

\* the tracking methods of the calls, invoked one after the other on tracker m
RECURSIVE Invoke(_, _)
Invoke(m, todo) ==
    IF todo = <<>> THEN m
    ELSE Invoke(Bind(m, LAMBDA x : with_memory(Head(todo)[1], x, Head(todo)[2])),
                Tail(todo))

\* what those invocations append to the transaction log, and the compute cycles
\* they add
InvokedLog(todo) ==
    Invoke([Self EXCEPT !.stats.memory_transactions = <<>>], todo).stats.memory_transactions

InvokedCycles(todo) ==
    Invoke([Self EXCEPT !.stats.computation_cycles = 0], todo).stats.computation_cycles

\* block is a run of consecutive entries of log
Contains(log, block) ==
    \E i \in 0..(Len(log) - Len(block)) : SubSeq(log, i + 1, i + Len(block)) = block

\* C30: each composite tracking method (multiply, rescale, rotate, keyswitch) invokes
\* the tracking methods of its constituent primitives in the order, and with the NUM
\* and inner, of the reference compute model.  Seen from outside: the log entries
\* that a composite call appends contain, as one run, the entries of those
\* invocations, and computation_cycles grows by their cycles plus the composite's own.
C30_CompositesDecompose ==
    [][(last'.op \in Composites /\ last'.error = "none")
       => LET todo == reference_calls(last'.op, last'.p)
              log == stats.memory_transactions
              log1 == stats'.memory_transactions
          IN  /\ Contains(SubSeq(log1, Len(log) + 1, Len(log1)), InvokedLog(todo))
              /\ stats'.computation_cycles
                    = stats.computation_cycles + InvokedCycles(todo) + last'.ret]_vars

\* C31: one call of a primitive-tracking method (the ten *_with_memory methods,
\* composites included) that returns increases computation_cycles by exactly the
\* duration it returns times the clock frequency (durations are kept in cycles, so
\* by the returned value).
C31_CyclesOfTheCall ==
    [][(last'.op \in Primitives /\ last'.error = "none")
       => stats'.computation_cycles = stats.computation_cycles + last'.ret]_vars

\* C32: each keyswitch_with_memory or rotate_with_memory call issues exactly one key
\* read, of l + 1 limbs, and increases dram_key_rd by exactly
\* calculate_size_in_bytes(N, l + 1), the compressed size, also when the compute
\* model raises afterwards; this holds for the runner whatever key_compression the
\* MemoryConfig of the last configure carried.  (run_benchmark with reset_stats
\* starts the counter and the log from empty.)
C32_OneCompressedKeyRead ==
    [][(/\ last'.op = "run_benchmark"
        /\ last'.operation \in {"keyswitch", "rotate"}
        /\ last'.error \in {"none", "collaborator"})
       => LET size == calculate_size_in_bytes(last'.p.N, last'.p.l + 1)
              log == IF last'.flag THEN <<>> ELSE stats.memory_transactions
              dram_key_rd == IF last'.flag THEN 0 ELSE stats.dram_key_rd
          IN  /\ stats'.dram_key_rd = dram_key_rd + size
              /\ LogCount(stats'.memory_transactions, "read_key")
                    = LogCount(log, "read_key") + 1
              /\ LogBytes(stats'.memory_transactions, "read_key")
                    = LogBytes(log, "read_key") + size]_vars

\* under HUGE, where the key is cached, a rotate without reset after an earlier key
\* switch or rotate: two key reads on record, both billed with the compressed size
C32_Witness ==
    /\ last.op = "run_benchmark" /\ last.operation = "rotate" /\ last.error = "none"
    /\ ~last.flag /\ prev.op = "run_benchmark"
    /\ tracker.cache_style = "HUGE"
    /\ LogCount(stats.memory_transactions, "read_key") = 2
    /\ stats.dram_key_rd = 2 * calculate_size_in_bytes(last.p.N, last.p.l + 1)

\* the bytes on the four DRAM counters of MemoryStats
DramTotal(s) == s.dram_limb_rd + s.dram_limb_wr + s.dram_key_rd + s.dram_plain_rd

\* C33: no write-back traffic is lost.  When the cache access that a read_limb,
\* write_limb, read_key or read_plaintext issues evicts dirty lines, the summed size
\* of those lines is added to a DRAM byte counter in the same call, on top of the
\* bytes of the request itself (the size the call logs).
C33_WriteBackCounted ==
    [][(/\ last'.op \in {"read_limb", "write_limb", "read_key", "read_plaintext"}
        /\ DirtySizes(Evicted(cache.lines, cache'.lines)) > 0)
       => LET log1 == stats'.memory_transactions
              requested == log1[Len(log1)][2]
          IN  DramTotal(stats')
                 >= DramTotal(stats) + requested
                    + DirtySizes(Evicted(cache.lines, cache'.lines))]_vars

C35_LatencyMonotone ==
    last.op = "calculate_dram_access_latency"
    => \A b1 \in TransferSizes :
          b1 <= last.size => calculate_dram_access_latency(b1) <= last.ret

\* C36: instrumentation does not perturb the timing accumulators of the compute
\* model: starting from the same ASIC state, after multiply_with_memory (resp.
\* rotate_with_memory) multiplytime (resp. Rotatetime) holds the value it holds after
\* the uninstrumented ASIC.multiply (resp. ASIC.rotate) with the same parameters.
C36_AccumulatorsUnperturbed ==
    [][/\ (last'.op = "multiply" /\ last'.error = "none")
          => asic'.multiplytime = asic_multiply(Self, last'.p).asic.multiplytime
       /\ (last'.op = "rotate" /\ last'.error = "none")
          => asic'.Rotatetime = asic_rotate(Self, last'.p).asic.Rotatetime]_vars

====
